---- MODULE Spec2Model ----
(***************************************************************************)
(* Model of activity_tracker.py: the ActivityWatchTracker class and main.  *)
(*                                                                         *)
(* Representation.                                                         *)
(*  - A datetime is [day, sec]: day counts days from Monday 2025-05-26     *)
(*    (so weekday() is day % 7), sec is the second of the day.             *)
(*  - A float number of hours is an exact fraction [n, d] in lowest terms. *)
(*  - A bucket id is a tuple of one-character strings.                     *)
(*  - A JSON object is a function whose DOMAIN is the set of its keys.     *)
(*  - The ActivityWatch server and the wall clock are the environment:     *)
(*    every HTTP response and every clock reading is a nondeterministic    *)
(*    choice.                                                              *)
(***************************************************************************)
EXTENDS Integers, Sequences, FiniteSets, TLC

\* ------------------------------------------------------------------ bounds
\* Number of buckets and events requests of one run that may fail.
MaxFailures == 2
\* Number of consecutive days the wall clock may show.
MaxClockDays == 2

\* ------------------------------------------------------- program constants
SecondsPerHour == 3600
SecondsPerDay == 86400
DaysPerWeek == 7
WorkdayEndHour == 18
HolidayStartHour == 9

\* the value None, where a datetime is expected
None == [none |-> TRUE]

\* --------------------------------------------------------------- fractions
RECURSIVE GCD(_, _)
GCD(a, b) == IF b = 0 THEN a ELSE GCD(b, a % b)

Abs(x) == IF x < 0 THEN -x ELSE x

\* the fraction n/d (d > 0) in lowest terms
Rat(n, d) ==
    LET g == GCD(Abs(n), d)
    IN  [n |-> n \div g, d |-> d \div g]

RInt(k) == [n |-> k, d |-> 1]
RAdd(a, b) == Rat(a.n * b.d + b.n * a.d, a.d * b.d)
RSub(a, b) == Rat(a.n * b.d - b.n * a.d, a.d * b.d)
RMulInt(a, k) == Rat(a.n * k, a.d)
RDivInt(a, k) == Rat(a.n, a.d * k)
RLess(a, b) == a.n * b.d < b.n * a.d
RLeq(a, b) == a.n * b.d <= b.n * a.d
RGeq(a, b) == RLeq(b, a)
RGreater(a, b) == RLess(b, a)
\* int(x) for x >= 0
RTrunc(a) == a.n \div a.d
RMin(a, b) == IF RLeq(a, b) THEN a ELSE b

\* --------------------------------------------------------------- datetimes
DateTime(day, sec) == [day |-> day, sec |-> sec]
AbsSeconds(dt) == dt.day * SecondsPerDay + dt.sec
FromAbsSeconds(s) == [day |-> s \div SecondsPerDay, sec |-> s % SecondsPerDay]

\* datetime + timedelta(seconds=s) and datetime + timedelta(days=k)
AddSeconds(dt, s) == FromAbsSeconds(AbsSeconds(dt) + s)
AddDays(dt, k) == [dt EXCEPT !.day = @ + k]

\* datetime.replace(hour=h, minute=0, second=0, microsecond=0)
ReplaceHour(dt, h) == [dt EXCEPT !.sec = h * SecondsPerHour]

\* the proleptic Gregorian calendar of datetime
IsLeap(y) == (y % 4 = 0) /\ ((y % 100 # 0) \/ (y % 400 = 0))
DaysInMonth(y, m) ==
    IF m = 2 THEN (IF IsLeap(y) THEN 29 ELSE 28)
    ELSE IF m \in {4, 6, 9, 11} THEN 30 ELSE 31
DaysBeforeYear(y) == (y - 1) * 365 + (y - 1) \div 4 - (y - 1) \div 100 + (y - 1) \div 400
RECURSIVE DaysBeforeMonth(_, _)
DaysBeforeMonth(y, m) == IF m = 1 THEN 0 ELSE DaysBeforeMonth(y, m - 1) + DaysInMonth(y, m - 1)
\* date(y, m, d).toordinal()
Ordinal(y, m, d) == DaysBeforeYear(y) + DaysBeforeMonth(y, m) + d
EpochOrdinal == Ordinal(2025, 5, 26)
ToOrdinal(dt) == dt.day + EpochOrdinal

\* datetime.weekday(): Monday is 0, Sunday is 6
Weekday(dt) == (ToOrdinal(dt) + 6) % DaysPerWeek

\* datetime.strptime(s, "%Y-%m-%d"), s given as its "-"-separated numbers
ValueError == [error |-> "ValueError"]
Strptime(fields) ==
    IF /\ Len(fields) = 3
       /\ fields[1] \in 1..9999
       /\ fields[2] \in 1..12
       /\ fields[3] \in 1..DaysInMonth(fields[1], fields[2])
    THEN DateTime(Ordinal(fields[1], fields[2], fields[3]) - EpochOrdinal, 0)
    ELSE ValueError

\* datetime.date()
DateOf(dt) == dt.day

\* strftime('%H:%M:%S'): the time of day only
StrfTime(dt) ==
    [h |-> dt.sec \div SecondsPerHour, m |-> (dt.sec % SecondsPerHour) \div 60, s |-> dt.sec % 60]

\* strftime('%Y-%m-%d'): the date only
StrfDate(dt) == dt.day

\* strftime('%A')
StrfDayName(dt) ==
    <<"Monday", "Tuesday", "Wednesday", "Thursday", "Friday", "Saturday", "Sunday">>[Weekday(dt) + 1]

\* datetime.isoformat()
IsoFormat(dt) == [date |-> StrfDate(dt), time |-> StrfTime(dt)]

\* timedelta(seconds=x) for a fraction x of seconds, at the clock's resolution
TimedeltaSeconds(x) == x.n \div x.d

\* ----------------------------------------------------------------- strings
UpperCase == <<"A", "B", "C", "D", "E", "F", "G", "H", "I", "J", "K", "L", "M",
               "N", "O", "P", "Q", "R", "S", "T", "U", "V", "W", "X", "Y", "Z">>
LowerCase == <<"a", "b", "c", "d", "e", "f", "g", "h", "i", "j", "k", "l", "m",
               "n", "o", "p", "q", "r", "s", "t", "u", "v", "w", "x", "y", "z">>

LowerChar(c) ==
    IF \E i \in 1..Len(UpperCase) : UpperCase[i] = c
    THEN LowerCase[CHOOSE i \in 1..Len(UpperCase) : UpperCase[i] = c]
    ELSE c

\* str.lower()
Lower(s) == [i \in 1..Len(s) |-> LowerChar(s[i])]

\* sub in s
Contains(sub, s) ==
    \E i \in 1..(Len(s) - Len(sub) + 1) : SubSeq(s, i, i + Len(sub) - 1) = sub

\* dict.get(k, default)
Get(obj, k, default) == IF k \in DOMAIN obj THEN obj[k] ELSE default

\* the empty string; a formatted string is a record of its format and fields
EmptyStr == [text |-> ""]
Truthy(str) == str.text # ""

\* ------------------------------------------------- ActivityWatchTracker
\* target_hours = 8.0 of print_summary and the default of the other methods
target_hours_default == RInt(8)
\* target_weekly_hours = 40.0
target_weekly_hours == RInt(40)

\* get_buckets: the parsed mapping (its keys, in order), {} on a failed request
get_buckets(response) == IF response.ok THEN response.json ELSE <<>>

\* get_events: the parsed list, [] on a failed request
get_events(response) == IF response.ok THEN response.json ELSE <<>>

\* "afk" in bid.lower()
IsAfkBucket(bid) == Contains(<<"a", "f", "k">>, Lower(bid))

\* AfkBuckets without the filter
AfkBuckets_unfiltered(buckets) == buckets

\* [bid for bid in buckets if "afk" in bid.lower()]
RECURSIVE AfkBuckets(_)
AfkBuckets(buckets) ==
    IF buckets = <<>> THEN <<>>
    ELSE IF IsAfkBucket(Head(buckets))
         THEN <<Head(buckets)>> \o AfkBuckets(Tail(buckets))
         ELSE AfkBuckets(Tail(buckets))

\* AddEvent with "else" in place of "elif status == 'afk'"
AddEvent_else(totals, event) ==
    LET duration == Get(event, "duration", 0)
        data == Get(event, "data", <<>>)
        status == Get(data, "status", "unknown")
    IN  IF status = "not-afk" THEN [totals EXCEPT !.active = @ + duration]
        ELSE [totals EXCEPT !.idle = @ + duration]

\* the body of "for event in events": totals is [active, idle] in seconds
AddEvent(totals, event) ==
    LET duration == Get(event, "duration", 0)
        data == Get(event, "data", <<>>)
        status == Get(data, "status", "unknown")
    IN  IF status = "not-afk" THEN [totals EXCEPT !.active = @ + duration]
        ELSE IF status = "afk" THEN [totals EXCEPT !.idle = @ + duration]
        ELSE totals

RECURSIVE AddEvents(_, _)
AddEvents(totals, events) ==
    IF events = <<>> THEN totals
    ELSE AddEvents(AddEvent(totals, Head(events)), Tail(events))

\* total_active_seconds / 3600
SecondsToHours(seconds) == Rat(seconds, SecondsPerHour)

\* get_week_range without the replace(hour=0, ...)
get_week_range_unaligned(target_date) ==
    LET days_since_monday == Weekday(target_date)
        week_start == AddDays(target_date, -days_since_monday)
        week_end == AddDays(week_start, DaysPerWeek)
    IN  <<week_start, week_end>>

\* get_week_range
get_week_range(target_date) ==
    LET days_since_monday == Weekday(target_date)
        week_start == ReplaceHour(AddDays(target_date, -days_since_monday), 0)
        week_end == AddDays(week_start, DaysPerWeek)
    IN  <<week_start, week_end>>

\* calculate_finish_time; now is the reading of datetime.now()
calculate_finish_time(active_hours, target_hours, now) ==
    IF RGeq(active_hours, target_hours)
    THEN [text |-> "Already completed target hours!"]
    ELSE LET remaining_hours == RSub(target_hours, active_hours)
             remaining_seconds == RMulInt(remaining_hours, SecondsPerHour)
             finish_time == AddSeconds(now, TimedeltaSeconds(remaining_seconds))
         IN  [text |-> "%H:%M:%S", time |-> StrfTime(finish_time)]

\* IsTodayOrUnset without the test
IsTodayOrUnset_always(target_date, now) == TRUE

\* "target_date is None or target_date.date() == datetime.now().date()"
IsTodayOrUnset(target_date, now) ==
    \/ target_date = None
    \/ DateOf(target_date) = DateOf(now)

\* calculate_overtime_range with a historical range that ends at 18:00
calculate_overtime_range_ends18(active_hours, target_hours, target_date, now1, now2) ==
    IF RLeq(active_hours, target_hours) THEN EmptyStr
    ELSE LET overtime_hours == RSub(active_hours, target_hours)
             overtime_seconds == RMulInt(overtime_hours, SecondsPerHour)
             end_time == IF IsTodayOrUnset(target_date, now1)
                         THEN now2
                         ELSE ReplaceHour(target_date, WorkdayEndHour)
             overtime_start == AddSeconds(end_time, -TimedeltaSeconds(overtime_seconds))
         IN  [text |-> "%s - %s", start |-> StrfTime(overtime_start), end |-> StrfTime(end_time)]

\* calculate_overtime_range with "<" in place of "<=" in its first test
calculate_overtime_range_lt(active_hours, target_hours, target_date, now1, now2) ==
    IF RLess(active_hours, target_hours) THEN EmptyStr
    ELSE LET overtime_hours == RSub(active_hours, target_hours)
             overtime_seconds == RMulInt(overtime_hours, SecondsPerHour)
             end_time == IF IsTodayOrUnset(target_date, now1)
                         THEN now2
                         ELSE AddSeconds(ReplaceHour(target_date, WorkdayEndHour),
                                         TimedeltaSeconds(overtime_seconds))
             overtime_start == AddSeconds(end_time, -TimedeltaSeconds(overtime_seconds))
         IN  [text |-> "%s - %s", start |-> StrfTime(overtime_start), end |-> StrfTime(end_time)]

\* calculate_overtime_range; now1 and now2 are the two readings of
\* datetime.now(), in the order the code takes them
calculate_overtime_range(active_hours, target_hours, target_date, now1, now2) ==
    IF RLeq(active_hours, target_hours) THEN EmptyStr
    ELSE LET overtime_hours == RSub(active_hours, target_hours)
             overtime_seconds == RMulInt(overtime_hours, SecondsPerHour)
             end_time == IF IsTodayOrUnset(target_date, now1)
                         THEN now2
                         ELSE AddSeconds(ReplaceHour(target_date, WorkdayEndHour),
                                         TimedeltaSeconds(overtime_seconds))
             overtime_start == AddSeconds(end_time, -TimedeltaSeconds(overtime_seconds))
         IN  [text |-> "%s - %s", start |-> StrfTime(overtime_start), end |-> StrfTime(end_time)]

\* is_holiday
is_holiday(target_date) == Weekday(target_date) \in {5, 6}

\* get_holiday_info
get_holiday_info(target_date) ==
    LET weekday == Weekday(target_date)
    IN  IF weekday = 5 THEN "Saturday"
        ELSE IF weekday = 6 THEN "Sunday"
        ELSE ""

\* calculate_holiday_overtime_range with the start of a past day at 18:00
calculate_holiday_overtime_range_from18(active_hours, target_date, now1, now2) ==
    IF RLeq(active_hours, RInt(0)) THEN EmptyStr
    ELSE LET active_seconds == RMulInt(active_hours, SecondsPerHour)
             end_time == IF IsTodayOrUnset(target_date, now1)
                         THEN now2
                         ELSE AddSeconds(ReplaceHour(target_date, WorkdayEndHour),
                                         TimedeltaSeconds(active_seconds))
             start_time == AddSeconds(end_time, -TimedeltaSeconds(active_seconds))
         IN  [text |-> "%s - %s", start |-> StrfTime(start_time), end |-> StrfTime(end_time)]

\* calculate_holiday_overtime_range, with the two clock readings as above
calculate_holiday_overtime_range(active_hours, target_date, now1, now2) ==
    IF RLeq(active_hours, RInt(0)) THEN EmptyStr
    ELSE LET active_seconds == RMulInt(active_hours, SecondsPerHour)
             end_time == IF IsTodayOrUnset(target_date, now1)
                         THEN now2
                         ELSE AddSeconds(ReplaceHour(target_date, HolidayStartHour),
                                         TimedeltaSeconds(active_seconds))
             start_time == AddSeconds(end_time, -TimedeltaSeconds(active_seconds))
         IN  [text |-> "%s - %s", start |-> StrfTime(start_time), end |-> StrfTime(end_time)]

\* the "Xh Ym" / "M minutes" rendering shared by the three progress reports
HoursMinutes(hours) ==
    IF RGeq(hours, RInt(1))
    THEN LET hours_int == RTrunc(hours)
             minutes == RTrunc(RMulInt(RSub(hours, RInt(hours_int)), 60))
         IN  [fmt |-> "%dh %dm", h |-> hours_int, m |-> minutes]
    ELSE [fmt |-> "%d minutes", m |-> RTrunc(RMulInt(hours, 60))]

\* (a / b) * 100
Percentage(a, b) == Rat(a.n * b.d * 100, a.d * b.n)

If(cond, lines) == IF cond THEN lines ELSE <<>>

\* print_summary: the lines it prints, in order.  nw is the sequence of the
\* readings of datetime.now() at its five call sites, in program order:
\* nw[1] at "analysis_date =", nw[2] and nw[3] in the range method that is
\* called, nw[4] at the finish-time test, nw[5] in calculate_finish_time.
print_summary(active_hours, idle_hours, target_date, nw) ==
    LET total_hours == RAdd(active_hours, idle_hours)
        target_hours == target_hours_default
        analysis_date == IF target_date # None THEN target_date ELSE nw[1]
        holiday == is_holiday(analysis_date)
        holiday_name == get_holiday_info(analysis_date)
        holiday_range == calculate_holiday_overtime_range(active_hours, target_date, nw[2], nw[3])
        overtime_range == calculate_overtime_range(active_hours, target_hours, target_date, nw[2], nw[3])
    IN  <<[line |-> "DAILY TIME SUMMARY"]>>
        \o If(holiday, <<[line |-> "HOLIDAY", name |-> holiday_name, date |-> StrfDate(analysis_date)]>>)
        \o <<[line |-> "Active Time", hours |-> active_hours, minutes |-> RMulInt(active_hours, 60)],
              [line |-> "Idle Time", hours |-> idle_hours, minutes |-> RMulInt(idle_hours, 60)],
              [line |-> "Total Time", hours |-> total_hours]>>
        \o If(RGreater(total_hours, RInt(0)),
               <<[line |-> "Active", percent |-> Percentage(active_hours, total_hours)],
                 [line |-> "Idle", percent |-> Percentage(idle_hours, total_hours)]>>)
        \o <<[line |-> IF holiday THEN "HOLIDAY OVERTIME" ELSE "8-HOUR WORKDAY PROGRESS"]>>
        \o (IF holiday
            THEN IF RGreater(active_hours, RInt(0))
                 THEN <<[line |-> "Holiday Overtime", amount |-> HoursMinutes(active_hours)]>>
                      \o If(Truthy(holiday_range),
                             <<[line |-> "Holiday work period", range |-> holiday_range]>>)
                 ELSE <<[line |-> "No work on holiday"]>>
            ELSE IF RGeq(active_hours, target_hours)
                 THEN <<[line |-> "Target reached! Overtime",
                         amount |-> HoursMinutes(RSub(active_hours, target_hours))]>>
                      \o If(Truthy(overtime_range),
                             <<[line |-> "Overtime period", range |-> overtime_range]>>)
                 ELSE <<[line |-> "Time left",
                         amount |-> HoursMinutes(RSub(target_hours, active_hours))]>>)
        \o (IF holiday
            THEN <<[line |-> "Holiday work", hours |-> active_hours]>>
            ELSE <<[line |-> "Progress",
                    percent |-> RMin(Percentage(active_hours, target_hours), RInt(100))]>>
                 \o If(IsTodayOrUnset(target_date, nw[4]) /\ RLess(active_hours, target_hours),
                        <<[line |-> "Estimated finish time",
                           time |-> calculate_finish_time(active_hours, target_hours, nw[5])]>>))

\* print_weekly_summary: the lines it prints, in order
RECURSIVE BreakdownLines(_)
BreakdownLines(daily_breakdown) ==
    IF daily_breakdown = <<>> THEN <<>>
    ELSE <<[line |-> "day", day_info |-> Head(daily_breakdown)[1], hours |-> Head(daily_breakdown)[2]]>>
         \o BreakdownLines(Tail(daily_breakdown))

print_weekly_summary(total_active_hours, total_idle_hours, daily_breakdown, week_start) ==
    LET total_hours == RAdd(total_active_hours, total_idle_hours)
    IN  <<[line |-> "WEEKLY TIME SUMMARY"],
          [line |-> "Week of", from |-> StrfDate(week_start), to |-> StrfDate(AddDays(week_start, 6))]>>
        \o BreakdownLines(daily_breakdown)
        \o <<[line |-> "Total Active Time", hours |-> total_active_hours,
               minutes |-> RMulInt(total_active_hours, 60)],
              [line |-> "Total Idle Time", hours |-> total_idle_hours,
               minutes |-> RMulInt(total_idle_hours, 60)],
              [line |-> "Total Time", hours |-> total_hours]>>
        \o If(RGreater(total_hours, RInt(0)),
               <<[line |-> "Active Percentage", percent |-> Percentage(total_active_hours, total_hours)]>>)
        \o <<[line |-> "40-HOUR WORK WEEK PROGRESS"]>>
        \o (IF RGeq(total_active_hours, target_weekly_hours)
            THEN <<[line |-> "Weekly target reached! Overtime",
                    amount |-> HoursMinutes(RSub(total_active_hours, target_weekly_hours))]>>
            ELSE <<[line |-> "Time left this week",
                    amount |-> HoursMinutes(RSub(target_weekly_hours, total_active_hours))]>>)
        \o <<[line |-> "Weekly Progress",
               percent |-> RMin(Percentage(total_active_hours, target_weekly_hours), RInt(100))],
              [line |-> "Average Daily", hours |-> RDivInt(total_active_hours, DaysPerWeek)]>>

\* ------------------------------------------------------------ environment
\* bucket ids the server may have registered
AfkId == <<"a", "w", "-", "a", "f", "k">>
WindowId == <<"a", "w", "-", "w", "i", "n">>
UpperAfkId == <<"p", "c", "_", "A", "f", "K", "2">>
NearAfkId == <<"a", "f", "-", "k">>

\* the key orders of the /buckets mapping the server may hold
BucketLists ==
    { <<>>,
      <<WindowId, NearAfkId>>,
      <<WindowId, AfkId>>,
      <<UpperAfkId, WindowId, AfkId>> }

\* an event as the server stores it; day is the day of its timestamp
Stored(day, bucket_id, event) == [day |-> day, bucket_id |-> bucket_id, event |-> event]

\* the event stores the server may hold
EventStores ==
    { << Stored(4, AfkId, [duration |-> 28800, data |-> [status |-> "not-afk"]]),
         Stored(4, AfkId, [duration |-> 1800, data |-> [status |-> "afk"]]),
         Stored(4, AfkId, [duration |-> 3600, data |-> [status |-> "AFK"]]),
         Stored(4, AfkId, [duration |-> 3600]),
         Stored(4, UpperAfkId, [data |-> [status |-> "not-afk"]]),
         Stored(4, UpperAfkId, [duration |-> 900, data |-> [status |-> "afk"]]),
         Stored(4, UpperAfkId, [duration |-> 7200, data |-> [status |-> "hibernating"]]),
         Stored(4, UpperAfkId, [duration |-> 3600, data |-> [status |-> "not-afk"]]),
         Stored(4, UpperAfkId, [duration |-> 1800, data |-> <<>>]),
         Stored(4, WindowId, [duration |-> 5400, data |-> [status |-> "not-afk"]]),
         Stored(0, AfkId, [duration |-> 3600, data |-> [status |-> "not-afk"]]),
         Stored(0, NearAfkId, [duration |-> 600, data |-> [status |-> "afk"]]),
         Stored(13, UpperAfkId, [duration |-> 1800, data |-> [status |-> "afk"]]) >>,
      << Stored(0, UpperAfkId, [duration |-> 1800, data |-> [status |-> "not-afk"]]),
         Stored(0, UpperAfkId, [duration |-> 1800, data |-> [status |-> "afk"]]),
         Stored(2, AfkId, [duration |-> 32400, data |-> [status |-> "not-afk"]]),
         Stored(4, AfkId, [duration |-> 28800, data |-> [status |-> "not-afk"]]),
         Stored(13, AfkId, [duration |-> 32400, data |-> [status |-> "not-afk"]]),
         Stored(13, AfkId, [duration |-> 7200, data |-> [status |-> "afk"]]) >> }

\* the events of a bucket whose timestamp is in the day window that starts at
\* start, as the server lists them
RECURSIVE EventsIn(_, _, _)
EventsIn(store, bucket_id, start) ==
    IF store = <<>> THEN <<>>
    ELSE IF Head(store).bucket_id = bucket_id /\ Head(store).day = start.date
         THEN <<Head(store).event>> \o EventsIn(Tail(store), bucket_id, start)
         ELSE EventsIn(Tail(store), bucket_id, start)

Failure == [ok |-> FALSE]
Success(json) == [ok |-> TRUE, json |-> json]

\* the values of --date: absent, or the "-"-separated fields of the text
NoDateArg == [given |-> FALSE]
DateArg(fields) == [given |-> TRUE, fields |-> fields]
DateArgs ==
    { NoDateArg,
      DateArg(<<>>),
      DateArg(<<2025, 5, 26>>),
      DateArg(<<2025, 6, 8>>),
      DateArg(<<2025, 2, 30>>),
      DateArg(<<27, 5, 2025>>),
      DateArg(<<2025, 5>>) }

\* the command lines tried: every --date alone, and --week with some of them
CommandLines ==
    {[date |-> d, week |-> FALSE] : d \in DateArgs}
    \cup {[date |-> d, week |-> TRUE] :
            d \in {NoDateArg, DateArg(<<2025, 5, 26>>), DateArg(<<2025, 6, 8>>),
                   DateArg(<<2025, 5>>)}}

\* the wall clock: the days and the times of day it may show
FirstClockDay == Ordinal(2025, 5, 30) - EpochOrdinal
ClockDays == FirstClockDay..(FirstClockDay + MaxClockDays - 1)
ClockSeconds == {63000, 86399}
ClockValues == {DateTime(d, t) : d \in ClockDays, t \in ClockSeconds}
\* the readings datetime.now() may give when the clock showed c before
Later(c) == {n \in ClockValues : AbsSeconds(n) >= AbsSeconds(c)}

\* ------------------------------------------------------------------- state
VARIABLES
    pc,            \* position of main: "start", "probe", "buckets", "events", "done"
    args,          \* the parsed command line: [date, week]
    clock,         \* the latest reading of the wall clock
    srvBuckets,    \* the bucket ids registered with the server
    srvEvents,     \* the events stored by the server
    failures,      \* number of failed buckets and events requests so far
    target_date,   \* main's target_date
    httpLog,       \* the HTTP requests issued so far, in order
    probe,         \* outcome of the /api/0/info probe: "none", "ok", "failed"
    daily,         \* the locals of the running calculate_daily_time call
    weekly,        \* the locals of the running calculate_weekly_time call
    dailyCalls,    \* the arguments of the calculate_daily_time calls so far
    dailyReturns,  \* what each finished calculate_daily_time call saw and returned
                   \* (answered: whether each of its requests succeeded, in order)
    out,           \* the lines printed so far
    call           \* the latest direct call of a tracker method, with its result

vars == <<pc, args, clock, srvBuckets, srvEvents, failures, target_date, httpLog, probe,
          daily, weekly, dailyCalls, dailyReturns, out, call>>

NoCall == [fn |-> "none"]
NoDaily == [running |-> FALSE]
NoWeekly == [running |-> FALSE]

Init ==
    /\ pc = "start"
    /\ args \in CommandLines
    /\ clock = DateTime(FirstClockDay, 63000)
    /\ srvBuckets \in BucketLists
    /\ srvEvents \in EventStores
    /\ failures = 0
    /\ target_date = None
    /\ httpLog = <<>>
    /\ probe = "none"
    /\ daily = NoDaily
    /\ weekly = NoWeekly
    /\ dailyCalls = <<>>
    /\ dailyReturns = <<>>
    /\ out = <<>>
    /\ call = NoCall

\* ------------------------------------------------------------------- main
\* "if args.date:" is the truth value of a str-or-None
DateGiven(date) == date.given /\ date.fields # <<>>

\* calculate_daily_time up to its first request: the day window, then GET /buckets
BeginDaily(date) ==
    LET start_time == ReplaceHour(date, 0)
        end_time == AddDays(start_time, 1)
    IN  /\ daily' = [running |-> TRUE,
                     target_date |-> date,
                     start_iso |-> IsoFormat(start_time),
                     end_iso |-> IsoFormat(end_time),
                     buckets |-> <<>>,
                     afk_buckets |-> <<>>,
                     i |-> 0,
                     total_active_seconds |-> 0,
                     total_idle_seconds |-> 0,
                     fetched |-> <<>>,
                     answered |-> <<>>]
        /\ dailyCalls' = Append(dailyCalls, date)
        /\ httpLog' = Append(httpLog, [url |-> "/api/0/buckets"])
        /\ pc' = "buckets"

\* main, from its start to the connection test: parse --date, GET /api/0/info
MainStart ==
    /\ pc = "start"
    /\ IF DateGiven(args.date)
       THEN LET parsed == Strptime(args.date.fields)
            IN  IF parsed = ValueError
                THEN /\ out' = Append(out, [line |-> "Error: Date must be in YYYY-MM-DD format"])
                     /\ pc' = "done"
                     /\ UNCHANGED <<target_date, httpLog, clock>>
                ELSE /\ target_date' = parsed
                     /\ httpLog' = Append(httpLog, [url |-> "/api/0/info"])
                     /\ pc' = "probe"
                     /\ UNCHANGED <<out, clock>>
       ELSE \* target_date = datetime.now(): the run starts at the time clock
            /\ target_date' = clock
            /\ httpLog' = Append(httpLog, [url |-> "/api/0/info"])
            /\ pc' = "probe"
            /\ UNCHANGED <<out, clock>>
    /\ UNCHANGED <<args, srvBuckets, srvEvents, failures, probe, daily, weekly, dailyCalls, dailyReturns, call>>

DtLess(a, b) == AbsSeconds(a) < AbsSeconds(b)

\* the sequences of five successive readings of a clock that showed c
Readings(c) ==
    {nw \in [1..5 -> Later(c)] : \A k \in 1..4 : AbsSeconds(nw[k]) <= AbsSeconds(nw[k + 1])}

\* calculate_weekly_time at its loop test, with locals w and `printed` on the
\* screen: either the next calculate_daily_time call up to its first request,
\* or the return to main, which prints the weekly summary
WeeklyLoop(w, printed) ==
    /\ weekly' = w
    /\ IF DtLess(w.current_date, w.week_end)
       THEN /\ BeginDaily(w.current_date)
            /\ out' = printed
       ELSE LET week_start == get_week_range(target_date)[1]
            IN  /\ out' = printed \o print_weekly_summary(w.total_active_hours,
                                                            w.total_idle_hours,
                                                            w.daily_breakdown, week_start)
                /\ pc' = "done"
                /\ daily' = NoDaily
                /\ UNCHANGED <<dailyCalls, httpLog>>

\* ProbeAborts without the "return" of the except clause
ProbeAborts_fallthrough(response) == FALSE

\* the connection test of main: "except requests.RequestException: ... return"
ProbeAborts(response) == ~response.ok

\* main, from the answer to the probe to the first request of the computation
ProbeResponse ==
    /\ pc = "probe"
    /\ \E response \in {Failure, Success(<<>>)} :
         IF ProbeAborts(response)
         THEN /\ probe' = "failed"
              /\ out' = Append(out, [line |-> "Error: Cannot connect to ActivityWatch"])
              /\ pc' = "done"
              /\ UNCHANGED <<httpLog, daily, weekly, dailyCalls>>
         ELSE /\ probe' = IF response.ok THEN "ok" ELSE "failed"
              /\ LET printed == Append(out, [line |-> "Successfully connected to ActivityWatch"])
                 IN  IF args.week
                     THEN LET range == get_week_range(target_date)
                          IN  WeeklyLoop([running |-> TRUE,
                                          week_start |-> range[1],
                                          week_end |-> range[2],
                                          current_date |-> range[1],
                                          total_active_hours |-> RInt(0),
                                          total_idle_hours |-> RInt(0),
                                          daily_breakdown |-> <<>>], printed)
                     ELSE /\ weekly' = weekly
                          /\ out' = printed
                          /\ BeginDaily(target_date)
    /\ UNCHANGED <<args, clock, srvBuckets, srvEvents, failures, target_date, dailyReturns, call>>

\* Accumulate with "=" in place of "+=" for total_active_hours
Accumulate_assign(w, active_hours, idle_hours) ==
    [w EXCEPT !.total_active_hours = active_hours,
              !.total_idle_hours = RAdd(@, idle_hours),
              !.daily_breakdown = Append(@, << [day_name |-> StrfDayName(w.current_date),
                                                date |-> StrfDate(w.current_date)],
                                               active_hours >>),
              !.current_date = AddDays(@, 1)]

\* the rest of the loop body of calculate_weekly_time once
\* calculate_daily_time(current_date) has returned
Accumulate(w, active_hours, idle_hours) ==
    [w EXCEPT !.total_active_hours = RAdd(@, active_hours),
              !.total_idle_hours = RAdd(@, idle_hours),
              !.daily_breakdown = Append(@, << [day_name |-> StrfDayName(w.current_date),
                                                date |-> StrfDate(w.current_date)],
                                               active_hours >>),
              !.current_date = AddDays(@, 1)]

\* the return of calculate_daily_time with locals d, and what its caller does
\* with the result up to the next request or the end of the run: the rest of
\* the loop body of calculate_weekly_time, or print_summary in main
Return(active_hours, idle_hours, d) ==
    /\ dailyReturns' = Append(dailyReturns,
                              [target_date |-> d.target_date,
                               buckets |-> d.buckets,
                               afk_buckets |-> d.afk_buckets,
                               fetched |-> d.fetched,
                               answered |-> d.answered,
                               active_hours |-> active_hours,
                               idle_hours |-> idle_hours])
    /\ IF args.week
       THEN /\ WeeklyLoop(Accumulate(weekly, active_hours, idle_hours), out)
            /\ clock' = clock
       ELSE \E nw \in Readings(clock) :
                /\ out' = out \o print_summary(active_hours, idle_hours, target_date, nw)
                /\ clock' = nw[5]
                /\ pc' = "done"
                /\ daily' = NoDaily
                /\ UNCHANGED <<weekly, dailyCalls, httpLog>>

\* calculate_daily_time, from the answer to GET /buckets to its next request
\* or its return
BucketsResponse ==
    /\ pc = "buckets"
    /\ \E response \in {Failure, Success(srvBuckets)} :
         LET cost == IF response.ok THEN 0 ELSE 1
             buckets == get_buckets(response)
             afk_buckets == AfkBuckets(buckets)
         IN  /\ failures + cost <= MaxFailures
             /\ failures' = failures + cost
             /\ IF buckets = <<>>
                THEN Return(RInt(0), RInt(0), [daily EXCEPT !.answered = <<response.ok>>])
                ELSE IF afk_buckets = <<>>
                THEN Return(RInt(0), RInt(0), [daily EXCEPT !.buckets = buckets,
                                                            !.answered = <<response.ok>>])
                ELSE /\ daily' = [daily EXCEPT !.buckets = buckets,
                                               !.afk_buckets = afk_buckets,
                                               !.i = 1,
                                               !.answered = <<response.ok>>]
                     /\ httpLog' = Append(httpLog,
                                          [url |-> "/api/0/buckets/{bucket_id}/events",
                                           bucket_id |-> afk_buckets[1],
                                           start |-> daily.start_iso,
                                           end |-> daily.end_iso])
                     /\ pc' = "events"
                     /\ UNCHANGED <<weekly, dailyCalls, dailyReturns, out, clock>>
    /\ UNCHANGED <<args, srvBuckets, srvEvents, target_date, probe, call>>

\* MoreBuckets with "break" in place of the "continue" after "if not events"
MoreBuckets_break(d, events) == events # <<>> /\ d.i < Len(d.afk_buckets)

\* "for bucket_id in afk_buckets": whether the loop goes on to another bucket
\* once the events of afk_buckets[i] are processed (an empty or failed
\* answer takes the "continue")
MoreBuckets(d, events) == d.i < Len(d.afk_buckets)

\* calculate_daily_time, from the answer to GET /buckets/{id}/events for
\* afk_buckets[i] to its next request or its return
EventsResponse ==
    /\ pc = "events"
    /\ \E response \in {Failure, Success(EventsIn(srvEvents, daily.afk_buckets[daily.i],
                                                    daily.start_iso))} :
         LET cost == IF response.ok THEN 0 ELSE 1
             events == get_events(response)
             totals == IF events = <<>>
                       THEN [active |-> daily.total_active_seconds,
                             idle |-> daily.total_idle_seconds]
                       ELSE AddEvents([active |-> daily.total_active_seconds,
                                       idle |-> daily.total_idle_seconds], events)
             d == [daily EXCEPT !.total_active_seconds = totals.active,
                                !.total_idle_seconds = totals.idle,
                                !.fetched = Append(@, events),
                                !.answered = Append(@, response.ok)]
         IN  /\ failures + cost <= MaxFailures
             /\ failures' = failures + cost
             /\ IF MoreBuckets(d, events)
                THEN /\ daily' = [d EXCEPT !.i = @ + 1]
                     /\ httpLog' = Append(httpLog,
                                          [url |-> "/api/0/buckets/{bucket_id}/events",
                                           bucket_id |-> d.afk_buckets[d.i + 1],
                                           start |-> d.start_iso,
                                           end |-> d.end_iso])
                     /\ pc' = "events"
                     /\ UNCHANGED <<weekly, dailyCalls, dailyReturns, out, clock>>
                ELSE Return(SecondsToHours(d.total_active_seconds),
                            SecondsToHours(d.total_idle_seconds), d)
    /\ UNCHANGED <<args, srvBuckets, srvEvents, target_date, probe, call>>

Next ==
    \/ MainStart
    \/ ProbeResponse
    \/ BucketsResponse
    \/ EventsResponse

Spec == Init /\ [][Next]_vars

\* --------------------------------------- direct calls of the tracker methods
\* the arguments tried
UnitDays == (FirstClockDay - 5)..(FirstClockDay + 9)
UnitDates == {DateTime(d, t) : d \in UnitDays, t \in {0, 63000, 86399}}
SummaryDates == {DateTime(d, t) : d \in (FirstClockDay - 1)..(FirstClockDay + 2), t \in {0, 63000}}
UnitHours == {RInt(0), Rat(1, 2), RInt(2), RInt(4), Rat(15, 2), RInt(8), Rat(17, 2), RInt(9), RInt(33)}
UnitTargets == {RInt(8), RInt(4)}

\* a program that has imported the module and calls one method of a tracker
InitUnit ==
    /\ pc = "lib"
    /\ args = [date |-> NoDateArg, week |-> FALSE]
    /\ clock \in ClockValues
    /\ srvBuckets = <<>>
    /\ srvEvents = <<>>
    /\ failures = 0
    /\ target_date = None
    /\ httpLog = <<>>
    /\ probe = "none"
    /\ daily = NoDaily
    /\ weekly = NoWeekly
    /\ dailyCalls = <<>>
    /\ dailyReturns = <<>>
    /\ out = <<>>
    /\ call = NoCall

mainVars == <<args, srvBuckets, srvEvents, failures, target_date, httpLog, probe,
              daily, weekly, dailyCalls, dailyReturns>>

CallGetWeekRange ==
    /\ pc = "lib"
    /\ \E d \in UnitDates :
         call' = [fn |-> "get_week_range", target_date |-> d, ret |-> get_week_range(d)]
    /\ pc' = "returned"
    /\ UNCHANGED <<mainVars, clock, out>>

CallCalculateFinishTime ==
    /\ pc = "lib"
    /\ \E a \in UnitHours, t \in UnitTargets, now \in Later(clock) :
         /\ call' = [fn |-> "calculate_finish_time", active_hours |-> a, target_hours |-> t,
                     now |-> <<now>>, ret |-> calculate_finish_time(a, t, now)]
         /\ clock' = now
    /\ pc' = "returned"
    /\ UNCHANGED <<mainVars, out>>

CallCalculateOvertimeRange ==
    /\ pc = "lib"
    /\ \E a \in UnitHours, t \in UnitTargets, d \in UnitDates \cup {None},
          now1 \in Later(clock) :
         \E now2 \in Later(now1) :
            /\ call' = [fn |-> "calculate_overtime_range", active_hours |-> a,
                        target_hours |-> t, target_date |-> d, now |-> <<now1, now2>>,
                        ret |-> calculate_overtime_range(a, t, d, now1, now2)]
            /\ clock' = now2
    /\ pc' = "returned"
    /\ UNCHANGED <<mainVars, out>>

CallIsHoliday ==
    /\ pc = "lib"
    /\ \E d \in UnitDates :
         call' = [fn |-> "is_holiday", target_date |-> d, ret |-> is_holiday(d)]
    /\ pc' = "returned"
    /\ UNCHANGED <<mainVars, clock, out>>

CallGetHolidayInfo ==
    /\ pc = "lib"
    /\ \E d \in UnitDates :
         call' = [fn |-> "get_holiday_info", target_date |-> d, ret |-> get_holiday_info(d)]
    /\ pc' = "returned"
    /\ UNCHANGED <<mainVars, clock, out>>

CallCalculateHolidayOvertimeRange ==
    /\ pc = "lib"
    /\ \E a \in UnitHours, d \in UnitDates \cup {None}, now1 \in Later(clock) :
         \E now2 \in Later(now1) :
            /\ call' = [fn |-> "calculate_holiday_overtime_range", active_hours |-> a,
                        target_date |-> d, now |-> <<now1, now2>>,
                        ret |-> calculate_holiday_overtime_range(a, d, now1, now2)]
            /\ clock' = now2
    /\ pc' = "returned"
    /\ UNCHANGED <<mainVars, out>>

CallPrintSummary ==
    /\ pc = "lib"
    /\ \E a \in UnitHours, i \in {RInt(0), Rat(1, 2)}, d \in SummaryDates \cup {None},
          nw \in Readings(clock) :
         /\ call' = [fn |-> "print_summary", active_hours |-> a, idle_hours |-> i,
                     target_date |-> d, now |-> nw, ret |-> None]
         /\ out' = print_summary(a, i, d, nw)
         /\ clock' = nw[5]
    /\ pc' = "returned"
    /\ UNCHANGED mainVars

NextUnit ==
    \/ CallGetWeekRange
    \/ CallCalculateFinishTime
    \/ CallCalculateOvertimeRange
    \/ CallIsHoliday
    \/ CallGetHolidayInfo
    \/ CallCalculateHolidayOvertimeRange
    \/ CallPrintSummary

SpecUnit == InitUnit /\ [][NextUnit]_vars

TypeOK == pc \in {"start", "probe", "buckets", "events", "done", "lib", "returned"}

\* ------------------------------------------------------------ properties
\* helpers of the properties, written independently of the actions
RECURSIVE SumSeq(_)
SumSeq(numbers) == IF numbers = <<>> THEN 0 ELSE Head(numbers) + SumSeq(Tail(numbers))

\* the status of an event, "" when it has no data or no status
StatusOf(event) ==
    IF "data" \in DOMAIN event
    THEN (IF "status" \in DOMAIN event.data THEN event.data.status ELSE "")
    ELSE ""
DurationOf(event) == IF "duration" \in DOMAIN event THEN event.duration ELSE 0

\* sum of the durations of the events of the given status in a sequence of event lists
StatusSeconds(lists, status) ==
    LET InEvent(event) == IF StatusOf(event) = status THEN DurationOf(event) ELSE 0
        InList(events) == SumSeq([e \in 1..Len(events) |-> InEvent(events[e])])
    IN  SumSeq([j \in 1..Len(lists) |-> InList(lists[j])])

\* x is the number of hours that `seconds` seconds make
IsHoursOf(x, seconds) == x.n * 3600 = seconds * x.d

\* id contains "afk" in any mix of cases
HasAfk(id) ==
    \E k \in 1..(Len(id) - 2) :
        /\ id[k] \in {"a", "A"}
        /\ id[k + 1] \in {"f", "F"}
        /\ id[k + 2] \in {"k", "K"}

IsEventsRequest(request) == request.url = "/api/0/buckets/{bucket_id}/events"
EventsRequests == SelectSeq(httpLog, IsEventsRequest)

Printed(text) == \E k \in 1..Len(out) : out[k].line = text

\* the calculate_daily_time calls to look at in a state: the one that has just
\* returned (dailyReturns only grows, so every call is looked at in the state
\* its return leads to)
LatestReturn == {k \in 1..Len(dailyReturns) : k = Len(dailyReturns)}

\* C1: every calculate_daily_time call returns active = (sum of the durations
\* of the "not-afk" events of all event lists it got for its AFK buckets) / 3600
\* and idle = (sum of the durations of the "afk" events) / 3600; events of
\* another status, or without status or data, count in neither.
C1_DailyTotals ==
    \A k \in LatestReturn :
        LET r == dailyReturns[k]
        IN  /\ IsHoursOf(r.active_hours, StatusSeconds(r.fetched, "not-afk"))
            /\ IsHoursOf(r.idle_hours, StatusSeconds(r.fetched, "afk"))

\* a call that summed two non-empty event lists, one of them holding events
\* of another status and events without status, into non-zero totals
C1_Witness ==
    \E k \in 1..Len(dailyReturns) :
        LET r == dailyReturns[k]
        IN  /\ Len(r.fetched) = 2
            /\ r.fetched[1] # <<>>
            /\ r.fetched[2] # <<>>
            /\ \E j \in 1..2 : \E e \in 1..Len(r.fetched[j]) :
                   StatusOf(r.fetched[j][e]) \notin {"afk", "not-afk"}
            /\ r.active_hours.n > 0
            /\ r.idle_hours.n > 0

\* C2: a calculate_daily_time call whose bucket mapping is empty or has no id
\* containing "afk" (in any case) returns (0, 0) and requests no events; events
\* are only ever requested for ids containing "afk", and only by calls that
\* found such an id.
C2_NoAfkNoEvents ==
    /\ \A k \in LatestReturn :
          LET r == dailyReturns[k]
          IN  (\A b \in 1..Len(r.buckets) : ~HasAfk(r.buckets[b]))
                  => /\ r.active_hours = RInt(0)
                     /\ r.idle_hours = RInt(0)
                     /\ r.fetched = <<>>
    /\ \A q \in 1..Len(EventsRequests) : HasAfk(EventsRequests[q].bucket_id)
    /\ Len(EventsRequests) =
           SumSeq([k \in 1..Len(dailyReturns) |-> Len(dailyReturns[k].fetched)])
           + (IF daily.running THEN daily.i ELSE 0)

\* a finished run whose only call got buckets, none of them an AFK bucket,
\* one of which has an event on the day asked for
C2_Witness ==
    /\ pc = "done"
    /\ Len(dailyReturns) = 1
    /\ dailyReturns[1].buckets # <<>>
    /\ \A b \in 1..Len(dailyReturns[1].buckets) : ~HasAfk(dailyReturns[1].buckets[b])
    /\ \E e \in 1..Len(srvEvents) : \E b \in 1..Len(dailyReturns[1].buckets) :
          /\ srvEvents[e].bucket_id = dailyReturns[1].buckets[b]
          /\ srvEvents[e].day = dailyReturns[1].target_date.day
    /\ EventsRequests = <<>>

\* C3: the /api/0/info probe is the first request of a run; once it has failed
\* the run is over with the connection error as its last line, without any
\* other request and without a daily or weekly summary.
C3_ProbeFirstAndFatal ==
    /\ httpLog # <<>> => httpLog[1].url = "/api/0/info"
    /\ probe = "failed" =>
          /\ pc = "done"
          /\ Len(httpLog) = 1
          /\ dailyCalls = <<>>
          /\ out[Len(out)].line = "Error: Cannot connect to ActivityWatch"
          /\ ~Printed("DAILY TIME SUMMARY")
          /\ ~Printed("WEEKLY TIME SUMMARY")

\* a run ended by a failed probe
C3_Witness == probe = "failed" /\ pc = "done" /\ Len(httpLog) = 1

\* the ids of the server's buckets that contain "afk" in any case, in order
ServerAfkIds == SelectSeq(srvBuckets, HasAfk)

\* the seconds the server holds for a bucket, a day and a status
StoredSeconds(bucket_id, day, status) ==
    SumSeq([e \in 1..Len(srvEvents) |->
              IF /\ srvEvents[e].bucket_id = bucket_id
                 /\ srvEvents[e].day = day
                 /\ StatusOf(srvEvents[e].event) = status
              THEN DurationOf(srvEvents[e].event)
              ELSE 0])

\* the seconds of a status that the answered events requests of call r cover
AnsweredSeconds(r, status) ==
    SumSeq([j \in 1..Len(r.fetched) |->
              IF r.answered[j + 1]
              THEN StoredSeconds(ServerAfkIds[j], r.target_date.day, status)
              ELSE 0])

CountUrl(url) == Len(SelectSeq(httpLog, LAMBDA request : request.url = url))

\* C4: after a successful probe no failed request aborts the computation: a
\* failed buckets request gives calculate_daily_time an empty mapping and a
\* failed events request an empty list; whatever fails, a call that got the
\* buckets requests the events of every AFK bucket once and returns the sums
\* over those that were answered; nothing is requested twice; the run makes a
\* bounded number of requests, is over only once main has printed the
\* summary, and until then is waiting for the answer to a request.
C4_FailuresTolerated ==
    /\ \A k \in LatestReturn :
          LET r == dailyReturns[k]
          IN  /\ ~r.answered[1] => r.buckets = <<>> /\ Len(r.answered) = 1
              /\ r.answered[1] => Len(r.fetched) = Len(ServerAfkIds)
              /\ Len(r.answered) = Len(r.fetched) + 1
              /\ \A j \in 1..Len(r.fetched) : ~r.answered[j + 1] => r.fetched[j] = <<>>
              /\ IsHoursOf(r.active_hours, AnsweredSeconds(r, "not-afk"))
              /\ IsHoursOf(r.idle_hours, AnsweredSeconds(r, "afk"))
    /\ CountUrl("/api/0/info") <= 1
    /\ CountUrl("/api/0/buckets") = Len(dailyCalls)
    /\ \A p \in 1..Len(EventsRequests), q \in 1..Len(EventsRequests) :
          p # q => EventsRequests[p] # EventsRequests[q]
    /\ Len(dailyCalls) <= (IF args.week THEN 7 ELSE 1)
    /\ Len(httpLog) <= 1 + Len(dailyCalls) * (1 + Len(ServerAfkIds))
    /\ probe = "ok" /\ pc # "done" =>
          /\ pc \in {"buckets", "events"}
          /\ httpLog[Len(httpLog)].url = (IF pc = "buckets" THEN "/api/0/buckets"
                                          ELSE "/api/0/buckets/{bucket_id}/events")
    /\ probe = "ok" /\ pc = "done" =>
          IF args.week THEN Printed("WEEKLY TIME SUMMARY") ELSE Printed("DAILY TIME SUMMARY")

\* a finished daily run in which the events request of the first AFK bucket
\* failed and the second was answered with events that were counted
C4_Witness ==
    /\ pc = "done"
    /\ Printed("DAILY TIME SUMMARY")
    /\ Len(dailyReturns) = 1
    /\ dailyReturns[1].answered = <<TRUE, FALSE, TRUE>>
    /\ dailyReturns[1].fetched[2] # <<>>
    /\ dailyReturns[1].active_hours.n > 0

\* C5: a --date that is given and does not parse ends the run with the
\* format error as the only output and without any HTTP request.
C5_InvalidDateStops ==
    (pc # "start" /\ args.date.given /\ Strptime(args.date.fields) = ValueError) =>
        /\ pc = "done"
        /\ httpLog = <<>>
        /\ out = <<[line |-> "Error: Date must be in YYYY-MM-DD format"]>>

\* the Monday (day number) of the Monday-to-Sunday week of a day; day 0 is a Monday
MondayOf(day) == CHOOSE m \in (day - 6)..day : m % 7 = 0
WeekdayNames == <<"Monday", "Tuesday", "Wednesday", "Thursday", "Friday", "Saturday", "Sunday">>

\* total is the sum of the hours in the sequence (each a fraction of 3600ths)
IsSumOfHours(total, hours) ==
    total.n * 3600 = SumSeq([k \in 1..Len(hours) |-> hours[k].n * (3600 \div hours[k].d)]) * total.d

\* C6: calculate_weekly_time calls calculate_daily_time once for each day of
\* the week of the date, at 00:00:00, Monday first; daily_breakdown holds one
\* entry per finished call, in that order, with the day and the active hours
\* the call returned; the totals are the sums of the returned values; the
\* loop ends after the 7th call.
C6_WeeklyTotals ==
    (args.week /\ probe = "ok") =>
        LET monday == MondayOf(target_date.day)
            done == Len(dailyReturns)
        IN  /\ Len(dailyCalls) <= 7
            /\ \A k \in 1..Len(dailyCalls) : dailyCalls[k] = DateTime(monday + k - 1, 0)
            /\ Len(dailyCalls) = (IF pc = "done" THEN done ELSE done + 1)
            /\ Len(weekly.daily_breakdown) = done
            /\ \A k \in 1..done :
                  /\ dailyReturns[k].target_date = dailyCalls[k]
                  /\ weekly.daily_breakdown[k][1] = [day_name |-> WeekdayNames[k],
                                                     date |-> monday + k - 1]
                  /\ weekly.daily_breakdown[k][2] = dailyReturns[k].active_hours
            /\ IsSumOfHours(weekly.total_active_hours,
                            [k \in 1..done |-> dailyReturns[k].active_hours])
            /\ IsSumOfHours(weekly.total_idle_hours,
                            [k \in 1..done |-> dailyReturns[k].idle_hours])
            /\ pc = "done" => done = 7

\* a finished weekly run with active time on at least two days and idle time
C6_Witness ==
    /\ args.week
    /\ probe = "ok"
    /\ pc = "done"
    /\ Len(weekly.daily_breakdown) = 7
    /\ \E j, k \in 1..7 :
          /\ j # k
          /\ dailyReturns[j].active_hours.n > 0
          /\ dailyReturns[k].active_hours.n > 0
    /\ weekly.total_idle_hours.n > 0

\* helpers for the direct calls
SecondsOf(dt) == dt.day * 86400 + dt.sec
TimeOfDay(hms) == hms.h * 3600 + hms.m * 60 + hms.s
IsTimeOfDay(hms) == hms.h \in 0..23 /\ hms.m \in 0..59 /\ hms.s \in 0..59
\* (a - b) * 3600 for fractions a >= b of hours that are whole seconds
HoursApartInSeconds(a, b) == ((a.n * b.d - b.n * a.d) * 3600) \div (a.d * b.d)
Exceeds(a, b) == a.n * b.d > b.n * a.d
LineOf(text) == out[CHOOSE k \in 1..Len(out) : out[k].line = text]
CountLines(texts) == Len(SelectSeq(out, LAMBDA l : l.line \in texts))
Eight == [n |-> 8, d |-> 1]
\* the date print_summary analyses in the call recorded in `call`
AnalysedDate == IF call.target_date = None THEN call.now[1] ELSE call.target_date
IsWeekend(dt) == dt.day % 7 \in {5, 6}

\* C7: get_week_range(d) is (week_start, week_end) with week_start a Monday
\* at 00:00:00, week_start <= d < week_end and week_end - week_start = 7 days;
\* every date-time of that week gives the same pair.
C7_WeekRange ==
    call.fn = "get_week_range" =>
        LET d == call.target_date
            week_start == call.ret[1]
            week_end == call.ret[2]
        IN  /\ week_start.sec = 0
            /\ week_start.day % 7 = 0
            /\ SecondsOf(week_start) <= SecondsOf(d)
            /\ SecondsOf(d) < SecondsOf(week_end)
            /\ SecondsOf(week_end) - SecondsOf(week_start) = 7 * 86400
            /\ \A e \in UnitDates :
                  (SecondsOf(week_start) <= SecondsOf(e) /\ SecondsOf(e) < SecondsOf(week_end))
                      => get_week_range(e) = call.ret

\* a call for the last second of a Sunday
C7_Witness ==
    /\ call.fn = "get_week_range"
    /\ call.target_date.day % 7 = 6
    /\ call.target_date.sec = 86399
    /\ call.ret[1] = [day |-> call.target_date.day - 6, sec |-> 0]

\* C8: calculate_overtime_range returns "" iff active_hours <= target_hours;
\* otherwise its two bounds are times of day that lie (active_hours -
\* target_hours) * 3600 seconds apart modulo 24 h; the range ends at the
\* current time when target_date is unset or today, and otherwise starts at
\* 18:00:00 and ends at 18:00:00 plus the overtime.
C8_OvertimeRange ==
    call.fn = "calculate_overtime_range" =>
        LET overtime == HoursApartInSeconds(call.active_hours, call.target_hours)
            today == call.target_date = None \/ call.target_date.day = call.now[1].day
        IN  /\ (call.ret = EmptyStr) <=> ~Exceeds(call.active_hours, call.target_hours)
            /\ Exceeds(call.active_hours, call.target_hours) =>
                  /\ IsTimeOfDay(call.ret.start)
                  /\ IsTimeOfDay(call.ret.end)
                  /\ (TimeOfDay(call.ret.end) - TimeOfDay(call.ret.start)) % 86400
                         = overtime % 86400
                  /\ today => TimeOfDay(call.ret.end) = call.now[2].sec
                  /\ ~today =>
                        /\ TimeOfDay(call.ret.start) = 18 * 3600
                        /\ TimeOfDay(call.ret.end) = (18 * 3600 + overtime) % 86400

\* 9.0 hours against 8.0 on a past date: 18:00:00 - 19:00:00
C8_Witness ==
    /\ call.fn = "calculate_overtime_range"
    /\ call.active_hours = [n |-> 9, d |-> 1]
    /\ call.target_hours = Eight
    /\ call.target_date # None
    /\ call.target_date.day < call.now[1].day
    /\ call.ret.start = [h |-> 18, m |-> 0, s |-> 0]
    /\ call.ret.end = [h |-> 19, m |-> 0, s |-> 0]

\* C9 as stated: on a Monday-to-Friday date print_summary prints the overtime
\* report together with the overtime period whenever active_hours >= 8, and
\* the time-left report otherwise; exactly one of the two reports.
C9_PeriodFromEight ==
    (call.fn = "print_summary" /\ ~IsWeekend(AnalysedDate)) =>
        /\ CountLines({"Target reached! Overtime", "Time left"}) = 1
        /\ Printed("Target reached! Overtime") <=> ~Exceeds(Eight, call.active_hours)
        /\ Printed("Overtime period") <=> ~Exceeds(Eight, call.active_hours)

\* C9 amended: on a Monday-to-Friday date print_summary prints the overtime
\* report whenever active_hours >= 8 and the time-left report otherwise,
\* exactly one of the two; the overtime period is printed exactly when
\* active_hours > 8, and then it is the range of calculate_overtime_range.
C9_PeriodAboveEight ==
    (call.fn = "print_summary" /\ ~IsWeekend(AnalysedDate)) =>
        LET overtime == HoursApartInSeconds(call.active_hours, Eight)
            today == call.target_date = None \/ call.target_date.day = call.now[2].day
        IN  /\ CountLines({"Target reached! Overtime", "Time left"}) = 1
            /\ Printed("Target reached! Overtime") <=> ~Exceeds(Eight, call.active_hours)
            /\ Printed("Overtime period") <=> Exceeds(call.active_hours, Eight)
            /\ Printed("Overtime period") =>
                  /\ (TimeOfDay(LineOf("Overtime period").range.end)
                        - TimeOfDay(LineOf("Overtime period").range.start)) % 86400
                         = overtime % 86400
                  /\ TimeOfDay(LineOf("Overtime period").range.end) =
                         (IF today THEN call.now[3].sec ELSE (18 * 3600 + overtime) % 86400)

\* a workday summary for exactly 8 hours: the overtime report without a period
C9_Witness ==
    /\ call.fn = "print_summary"
    /\ ~IsWeekend(AnalysedDate)
    /\ call.active_hours = Eight
    /\ Printed("Target reached! Overtime")
    /\ ~Printed("Overtime period")

\* C10: print_summary prints the "Estimated finish time" line iff the date is
\* today or unset, the analysed date is not a Saturday or Sunday, and
\* active_hours < 8; the line then shows the time of day (8 - active_hours)
\* hours after the current time, never "Already completed target hours!",
\* which calculate_finish_time returns exactly when active_hours >= target_hours.
C10_FinishTime ==
    /\ call.fn = "print_summary" =>
          LET today == call.target_date = None \/ call.target_date.day = call.now[4].day
              remaining == HoursApartInSeconds(Eight, call.active_hours)
          IN  /\ Printed("Estimated finish time") <=>
                    (today /\ ~IsWeekend(AnalysedDate) /\ Exceeds(Eight, call.active_hours))
              /\ Printed("Estimated finish time") =>
                    /\ LineOf("Estimated finish time").time.text # "Already completed target hours!"
                    /\ IsTimeOfDay(LineOf("Estimated finish time").time.time)
                    /\ TimeOfDay(LineOf("Estimated finish time").time.time)
                           = (call.now[5].sec + remaining) % 86400
    /\ call.fn = "calculate_finish_time" =>
          ((call.ret.text = "Already completed target hours!")
              <=> ~Exceeds(call.target_hours, call.active_hours))

\* a summary for today with a finish time past midnight
C10_Witness ==
    /\ call.fn = "print_summary"
    /\ call.target_date # None
    /\ Printed("Estimated finish time")
    /\ TimeOfDay(LineOf("Estimated finish time").time.time) < call.now[5].sec

\* the length in seconds of a number of hours, and its whole minutes
SecondsOfHours(hours) == (hours.n * 3600) \div hours.d
WholeMinutes(hours) == (hours.n * 60) \div hours.d
HolidayLines == {"HOLIDAY", "HOLIDAY OVERTIME", "Holiday Overtime", "Holiday work period",
                 "No work on holiday", "Holiday work"}
WorkdayLines == {"8-HOUR WORKDAY PROGRESS", "Target reached! Overtime", "Overtime period",
                 "Time left", "Progress", "Estimated finish time"}

\* the work period `range` is active_hours long (on the 24-hour clock face)
\* and, for a date and clock readings now1, now2, ends at now2 when the date
\* is unset or the day of now1, and else runs from 09:00:00
IsHolidayPeriod(range, active_hours, date, now1, now2) ==
    LET length == SecondsOfHours(active_hours)
        today == date = None \/ date.day = now1.day
    IN  /\ IsTimeOfDay(range.start)
        /\ IsTimeOfDay(range.end)
        /\ (TimeOfDay(range.end) - TimeOfDay(range.start)) % 86400 = length % 86400
        /\ today => TimeOfDay(range.end) = now2.sec
        /\ ~today =>
              /\ TimeOfDay(range.start) = 9 * 3600
              /\ TimeOfDay(range.end) = (9 * 3600 + length) % 86400

====
